---- MODULE Spec2Model ----
(***************************************************************************)
(* Model of examples/plot_glm_retinal_ganglia.py (binning, the sample      *)
(* plots, the lagged design-matrix construction, the closed-form           *)
(* linear-Gaussian fit, the two Poisson fits and the pseudo-R^2            *)
(* evaluation) and of the regularization-path indexing exercised by        *)
(* tests/test_pyglmnet.py.                                                 *)
(*                                                                         *)
(* The script is straight-line code; pc is its position.  Arrays are       *)
(* sequences (1-indexed here, 0-indexed in the source); a 2-D array is a   *)
(* record [shape |-> <<rows, cols>>, rows |-> sequence of rows].  Times    *)
(* are counted in units of dt.  A sequence of binary64 numbers is held as  *)
(* exact fractions over one denominator, [num |-> <<...>>, den |-> d].     *)
(***************************************************************************)
EXTENDS Integers, Sequences, FiniteSets

\* ------------------------------------------------------------------ bounds
\* the stimulus has n_sample - 1 .. n_sample + MaxExtra frames
MaxExtra == 0
\* the stimulus repeats a binary pattern of this length
StimPeriod == 3
\* largest number of spikes in a bin (before the spikes on the last edge)
MaxCount == 2
\* n_t_filt ranges over 0..MaxLag, n_t_hist over 0..MaxHist
MaxLag == 3
MaxHist == 2
\* rows of the matrix passed to glm.predict in the test
MaxSamples == 3
\* largest log2 rate of a fitted Poisson model
MaxLogRate == 1

\* len(sample_index), sample_index = np.arange(120) (line 110)
n_sample == 120

\* n_lambda of the fitted regularization path (tests/test_pyglmnet.py:18)
n_lambda == 10

VARIABLES
    pc,            \* position in the script
    err,           \* the exception that ended the script, or "none"
    stim,          \* rgcs_dataset['stim']
    spike_time,    \* spike times of the chosen cell, in units of dt
    n_t_filt,      \* stimulus lag window (line 144)
    n_t_hist,      \* spike-history window (line 215)
    t_bins,        \* bin edges, in units of dt
    spikes_binned, \* histogram of spike_time over t_bins
    stim_padded,
    Xdsgn,
    Xdsgn_offset,
    wsta_offset,   \* const and the lag weights of the closed-form fit
    spikes_pred_lgGLM_offset,
    glm_poisson,   \* intercept and weights of the fitted Poisson GLM
    spikes_pred_poissonGLM,
    Xstim,
    Xspikes,
    Xdsgn_hist,
    glm_poisson_hist,
    spikes_pred_poissonGLM_hist,
    r2,            \* the three reported values 1 - mse / rss
    glm,           \* the GLM object of tests/test_pyglmnet.py
    glm_call,      \* the last call made on the GLM object
    y_pred_shape,  \* shape of the last glm.predict result
    glm_err        \* exception raised by the last GLM operation, or "none"

scriptVars == <<pc, err, stim, spike_time, n_t_filt, n_t_hist, t_bins,
                spikes_binned, stim_padded, Xdsgn, Xdsgn_offset, wsta_offset,
                spikes_pred_lgGLM_offset, glm_poisson, spikes_pred_poissonGLM,
                Xstim, Xspikes, Xdsgn_hist, glm_poisson_hist,
                spikes_pred_poissonGLM_hist, r2>>
glmVars == <<glm, glm_call, y_pred_shape, glm_err>>
vars == <<pc, err, stim, spike_time, n_t_filt, n_t_hist, t_bins,
          spikes_binned, stim_padded, Xdsgn, Xdsgn_offset, wsta_offset,
          spikes_pred_lgGLM_offset, glm_poisson, spikes_pred_poissonGLM,
          Xstim, Xspikes, Xdsgn_hist, glm_poisson_hist,
          spikes_pred_poissonGLM_hist, r2, glm, glm_call, y_pred_shape,
          glm_err>>
\* ------------------------------------------------------- array primitives
Max(a, b) == IF a >= b THEN a ELSE b
Min(a, b) == IF a <= b THEN a ELSE b

\* the element of a singleton: {e(v) : v \in {x}} evaluates x once
The(S) == CHOOSE x \in S : TRUE

\* a Python name that is not bound to an array yet
None == [shape |-> <<>>, rows |-> <<>>]

\* a name that is not bound to a sequence of floats yet
NoSeq == [num |-> <<>>, den |-> 1]

\* Python s[:stop]
SliceTo(s, stop) ==
    LET n == Len(s)
        e == IF stop < 0 THEN Max(n + stop, 0) ELSE Min(stop, n)
    IN  SubSeq(s, 1, e)

\* Python s[start:]
SliceFrom(s, start) ==
    LET n == Len(s)
        b == IF start < 0 THEN Max(n + start, 0) ELSE Min(start, n)
    IN  SubSeq(s, b + 1, n)

\* np.pad(s, (before, 0)): constant mode, zeros; before >= 0 is checked by
\* the caller (a negative width raises ValueError)
PadLeft(s, before) == [i \in 1..before |-> 0] \o s

\* scipy.linalg.hankel(c, r): first column c, last row r, r[0] ignored
hankel(c, r) ==
    The({[shape |-> <<Len(c), Len(r)>>,
          rows  |-> [i \in 1..Len(c) |->
                        [j \in 1..Len(r) |-> vals[i + j - 1]]]] :
            vals \in {c \o SliceFrom(r, 1)}})

\* np.ones((n, 1))
Ones(n) == [shape |-> <<n, 1>>, rows |-> [i \in 1..n |-> <<1>>]]

\* np.hstack((A, B)) of two 2-D arrays; the row counts must agree
HstackOk(A, B) == A.shape[1] = B.shape[1]
hstack(A, B) ==
    [shape |-> <<A.shape[1], A.shape[2] + B.shape[2]>>,
     rows  |-> [i \in 1..A.shape[1] |-> A.rows[i] \o B.rows[i]]]

\* np.arange(n)
arange(n) == [i \in 1..n |-> i - 1]

\* a[index] for an integer index array: every index must be below len(a)
TakeOk(a, index) == \A i \in 1..Len(index) : index[i] < Len(a)

\* np.histogram(a, bins): bin i is [bins[i], bins[i+1]), the last bin is
\* closed on the right; values outside the edges are dropped
histogram(a, bins) ==
    LET nb == Len(bins) - 1
        In(x, i) == /\ bins[i] <= x
                    /\ IF i = nb THEN x <= bins[i + 1] ELSE x < bins[i + 1]
    IN  [i \in 1..nb |-> Cardinality({k \in 1..Len(a) : In(a[k], i)})]

\* ------------------------------------------------------------ the script
\* lines 145-146 (and 220): the stimulus embedding
StimPadded(s, L) == PadLeft(s, L - 1)
XdsgnOf(s, L) == hankel(SliceTo(StimPadded(s, L), 1 - L), SliceFrom(s, -L))

\* the frames of a recording that repeats the pattern p
Periodic(p, n) == [i \in 1..n |-> p[((i - 1) % Len(p)) + 1]]

\* the sorted spike times of a train with c[i] spikes in bin i - 1
RECURSIVE Ticks(_, _, _)
Ticks(c, lo, hi) ==
    IF lo > hi THEN <<>>
    ELSE IF lo = hi THEN [k \in 1..c[lo] |-> lo - 1]
    ELSE LET mid == (lo + hi) \div 2
         IN  Ticks(c, lo, mid) \o Ticks(c, mid + 1, hi)

\* the stimulus is binary white noise (lines 24, 62); the recordings tried
\* repeat a pattern of StimPeriod frames and are one frame shorter than the
\* sample window, or up to MaxExtra frames longer
StimValues == {0, 1}
StimLengths == (n_sample - 1)..(n_sample + MaxExtra)
StimSeqs ==
    {Periodic(p, n) : p \in [1..StimPeriod -> StimValues], n \in StimLengths}

\* spike counts per bin: a pattern of two bins repeated, or k spikes in
\* every frame whose stimulus is on
SpikeCounts(s) ==
    {Periodic(q, Len(s)) : q \in [1..2 -> 0..MaxCount]}
      \cup {[t \in 1..Len(s) |-> k * s[t]] : k \in 1..MaxCount}

\* spike trains: a train may end with one spike on the last bin edge and
\* one beyond it
SpikeTrains(s) ==
    {Ticks(c, 1, Len(s)) \o tail :
        c \in SpikeCounts(s), tail \in {<<>>, <<Len(s), Len(s) + 1>>}}

n_t == Len(stim)
n_spikes == Len(spike_time)

\* line 99, in units of dt
TBins(n) == arange(n + 1)

\* lines 98-100
BinSpikes ==
    /\ pc = "bin"
    /\ t_bins' = TBins(n_t)
    /\ spikes_binned' = histogram(spike_time, t_bins')
    /\ pc' = "plot"
    /\ UNCHANGED <<err, stim, spike_time, n_t_filt, n_t_hist, stim_padded,
                   Xdsgn, Xdsgn_offset, wsta_offset, spikes_pred_lgGLM_offset,
                   glm_poisson, spikes_pred_poissonGLM, Xstim, Xspikes,
                   Xdsgn_hist, glm_poisson_hist, spikes_pred_poissonGLM_hist,
                   r2>>

\* the numbers of bin edges that are supplied for a stimulus of n frames
EdgeCounts(n) == {n, n + 1, n + 2}

\* line 100 on supplied bin edges: the script with line 99 replaced by a
\* grid of k edges, the case the specification names a supplied bin-edge
\* count.  The histogram has k - 1 counts.
BinSpikesSupplied ==
    /\ pc = "bin"
    /\ \E k \in EdgeCounts(n_t) : t_bins' = arange(k)
    /\ spikes_binned' = histogram(spike_time, t_bins')
    /\ pc' = "plot"
    /\ UNCHANGED <<err, stim, spike_time, n_t_filt, n_t_hist, stim_padded,
                   Xdsgn, Xdsgn_offset, wsta_offset, spikes_pred_lgGLM_offset,
                   glm_poisson, spikes_pred_poissonGLM, Xstim, Xspikes,
                   Xdsgn_hist, glm_poisson_hist, spikes_pred_poissonGLM_hist,
                   r2>>

\* line 110
sample_index == arange(n_sample)

\* lines 110-135: stim[sample_index] (line 114), spike_time[sample_index]
\* (line 123) and spikes_binned[sample_index] (line 130) raise IndexError
\* when the array has fewer than len(sample_index) entries
PlotSample ==
    /\ pc = "plot"
    /\ IF /\ TakeOk(stim, sample_index)
          /\ TakeOk(spike_time, sample_index)
          /\ TakeOk(spikes_binned, sample_index)
       THEN pc' = "design" /\ UNCHANGED err
       ELSE pc' = "error" /\ err' = "IndexError"
    /\ UNCHANGED <<stim, spike_time, n_t_filt, n_t_hist, t_bins,
                   spikes_binned, stim_padded, Xdsgn, Xdsgn_offset,
                   wsta_offset, spikes_pred_lgGLM_offset, glm_poisson,
                   spikes_pred_poissonGLM, Xstim, Xspikes, Xdsgn_hist,
                   glm_poisson_hist, spikes_pred_poissonGLM_hist, r2>>

\* lines 144-146
BuildXdsgn ==
    /\ pc = "design"
    /\ \E L \in 0..MaxLag :
         /\ n_t_filt' = L
         /\ IF L - 1 < 0
            THEN \* np.pad: "index can't contain negative values"
                 /\ pc' = "error"
                 /\ err' = "ValueError"
                 /\ UNCHANGED <<stim_padded, Xdsgn>>
            ELSE /\ stim_padded' = StimPadded(stim, L)
                 /\ Xdsgn' = XdsgnOf(stim, L)
                 /\ pc' = "offset"
                 /\ UNCHANGED err
    /\ UNCHANGED <<stim, spike_time, n_t_hist, t_bins, spikes_binned,
                   Xdsgn_offset, wsta_offset, spikes_pred_lgGLM_offset,
                   glm_poisson, spikes_pred_poissonGLM, Xstim, Xspikes,
                   Xdsgn_hist, glm_poisson_hist, spikes_pred_poissonGLM_hist,
                   r2>>

\* line 172
AddOffset ==
    /\ pc = "offset"
    /\ IF HstackOk(Ones(n_t), Xdsgn)
       THEN /\ Xdsgn_offset' = hstack(Ones(n_t), Xdsgn)
            /\ pc' = "lgfit"
            /\ UNCHANGED err
       ELSE \* np.hstack: the array dimensions must match exactly
            /\ pc' = "error"
            /\ err' = "ValueError"
            /\ UNCHANGED Xdsgn_offset
    /\ UNCHANGED <<stim, spike_time, n_t_filt, n_t_hist, t_bins,
                   spikes_binned, stim_padded, Xdsgn, wsta_offset,
                   spikes_pred_lgGLM_offset, glm_poisson,
                   spikes_pred_poissonGLM, Xstim, Xspikes, Xdsgn_hist,
                   glm_poisson_hist, spikes_pred_poissonGLM_hist, r2>>

\* ---------------------------------------------------------- exact arithmetic
\* the sum of s[lo..hi], by halves
RECURSIVE SumRange(_, _, _)
SumRange(s, lo, hi) ==
    IF lo > hi THEN 0
    ELSE IF lo = hi THEN s[lo]
    ELSE LET mid == (lo + hi) \div 2
         IN  SumRange(s, lo, mid) + SumRange(s, mid + 1, hi)

SumSeq(s) == SumRange(s, 1, Len(s))

Abs(x) == IF x < 0 THEN -x ELSE x

RECURSIVE Gcd(_, _)
Gcd(a, b) == IF b = 0 THEN a ELSE Gcd(b, a % b)

\* the greatest common divisor of g and s[lo..hi], by halves
RECURSIVE GcdRange(_, _, _, _)
GcdRange(s, lo, hi, g) ==
    IF lo > hi \/ g = 1 THEN g
    ELSE IF lo = hi THEN Gcd(Abs(s[lo]), g)
    ELSE LET mid == (lo + hi) \div 2
         IN  GcdRange(s, mid + 1, hi, GcdRange(s, lo, mid, g))

GcdSeq(s, g) == GcdRange(s, 1, Len(s), g)

\* The products below leave the 32-bit integers of the model checker, so
\* the quotient (p*q - r*s) / t (an exact division, the quotient being a
\* minor of the matrix) is computed from its residues modulo two primes.
ModPrimes == <<46337, 46327, 46309>>

RECURSIVE InvMod(_, _)
InvMod(a, m) ==
    IF a = 1 THEN 1 ELSE (m - (((m \div a) * InvMod(m % a, m)) % m)) % m

MulSubDiv(p, q, r, s, t) ==
    LET Small(x) == -32768 < x /\ x < 32768
        ok == {i \in 1..3 : t % ModPrimes[i] # 0}
        i1 == CHOOSE i \in ok : \A h \in ok : i <= h
        i2 == CHOOSE i \in ok \ {i1} : \A h \in ok \ {i1} : i <= h
        m1 == ModPrimes[i1]
        m2 == ModPrimes[i2]
        Res(m) == LET a == ((p % m) * (q % m)) % m
                      b == ((r % m) * (s % m)) % m
                  IN  (((a - b) % m) * InvMod(t % m, m)) % m
        r1 == Res(m1)
        h2 == (((Res(m2) - r1) % m2) * InvMod(m1 % m2, m2)) % m2
        x  == r1 + m1 * h2
    IN  IF Small(p) /\ Small(q) /\ Small(r) /\ Small(s)
        THEN (p * q - r * s) \div t
        ELSE IF x > (m1 * m2) \div 2 THEN x - m1 * m2 ELSE x

\* a sequence of floats, all fractions over one denominator, in lowest terms
Normalize(num, den) ==
    The({[num |-> [i \in 1..Len(num) |-> num[i] \div k], den |-> den \div k] :
            k \in {IF den < 0 THEN -GcdSeq(num, Abs(den))
                   ELSE GcdSeq(num, Abs(den))}})

\* ------------------------------------------------- natural numbers in limbs
\* Squared errors and binary64 significands leave the 32-bit integers of
\* the model checker: a natural number is held in radix 2^LimbBits, as a
\* sequence of limbs, least significant first, without leading zeros (0 is
\* the empty sequence).
LimbBits == 10
Radix == 2 ^ LimbBits
Limb(x, i) == (x \div (Radix ^ i)) % Radix

\* the limbs of sum over i of c[i] * Radix^(i-1), from position i on
RECURSIVE Carry(_, _, _)
Carry(c, i, carry) ==
    IF i > Len(c)
    THEN IF carry = 0 THEN <<>>
         ELSE <<carry % Radix>> \o Carry(c, i, carry \div Radix)
    ELSE <<(c[i] + carry) % Radix>>
            \o Carry(c, i + 1, (c[i] + carry) \div Radix)

RECURSIVE Trim(_)
Trim(a) ==
    IF a = <<>> \/ a[Len(a)] # 0 THEN a ELSE Trim(SubSeq(a, 1, Len(a) - 1))

BigNorm(c) == Trim(Carry(c, 1, 0))
BigOfInt(x) == BigNorm(<<x>>)

BigMul(a, b) ==
    BigNorm([k \in 1..(Len(a) + Len(b) - 1) |->
        SumSeq([i \in 1..Len(a) |->
            IF 1 <= k + 1 - i /\ k + 1 - i <= Len(b)
            THEN a[i] * b[k + 1 - i] ELSE 0])])

BigLess(a, b) ==
    \/ Len(a) < Len(b)
    \/ /\ Len(a) = Len(b)
       /\ \E i \in 1..Len(a) :
            /\ a[i] < b[i]
            /\ \A j \in (i + 1)..Len(a) : a[j] = b[j]

\* a - b for a >= b
RECURSIVE Borrow(_, _, _, _)
Borrow(a, b, i, borrow) ==
    IF i > Len(a) THEN <<>>
    ELSE LET d == a[i] - (IF i <= Len(b) THEN b[i] ELSE 0) - borrow
         IN  <<d % Radix>> \o Borrow(a, b, i + 1, IF d < 0 THEN 1 ELSE 0)

BigSub(a, b) == Trim(Borrow(a, b, 1, 0))

\* ---------------------------------------------------- binary64 arithmetic
\* A binary64 number is neg, m, e: the value (-1)^neg * m * 2^e, m an odd
\* natural number of at most Precision bits held in limbs (0 is m = <<>>).
\* Every operation computes the exact result and rounds it to nearest, ties
\* to even; overflow, underflow and the sign of zero are not modelled.
Precision == 53
\* the quotient of a division is computed ChunkBits bits at a time
ChunkBits == 8

LimbAt(m, i) == IF 1 <= i /\ i <= Len(m) THEN m[i] ELSE 0

BigAdd(a, b) ==
    BigNorm([i \in 1..Max(Len(a), Len(b)) |-> LimbAt(a, i) + LimbAt(b, i)])

\* the number of bits of the natural number m
BitLen(m) ==
    IF m = <<>> THEN 0
    ELSE (Len(m) - 1) * LimbBits
           + (CHOOSE k \in 1..LimbBits :
                 m[Len(m)] < 2 ^ k /\ m[Len(m)] >= 2 ^ (k - 1))

\* m * 2^k and m \div 2^d
ShiftLeft(m, k) ==
    LET a == k \div LimbBits
        r == k % LimbBits
    IN  BigNorm([i \in 1..(Len(m) + a + 1) |->
                    IF i <= a THEN 0
                    ELSE ((LimbAt(m, i - a) * 2 ^ r) % Radix)
                           + ((LimbAt(m, i - a - 1) * 2 ^ r) \div Radix)])
ShiftRight(m, d) ==
    LET a == d \div LimbBits
        r == d % LimbBits
    IN  BigNorm([i \in 1..Max(Len(m) - a, 0) |->
                    (LimbAt(m, i + a) \div 2 ^ r)
                      + ((LimbAt(m, i + a + 1) % 2 ^ r) * 2 ^ (LimbBits - r))])

\* bit i of m (bit 0 is the lowest); whether the k lowest bits are all 0
Bit(m, i) == (LimbAt(m, i \div LimbBits + 1) \div 2 ^ (i % LimbBits)) % 2
LowZero(m, k) ==
    /\ \A i \in 1..(k \div LimbBits) : LimbAt(m, i) = 0
    /\ LimbAt(m, k \div LimbBits + 1) % 2 ^ (k % LimbBits) = 0

\* the number of trailing zero bits of m > 0
TrailingZeros(m) ==
    CHOOSE k \in 0..(Len(m) * LimbBits) : LowZero(m, k) /\ Bit(m, k) = 1

Zero == [neg |-> FALSE, m |-> <<>>, e |-> 0]

Canon(neg, m, e) ==
    IF m = <<>> THEN Zero
    ELSE The({[neg |-> neg, m |-> ShiftRight(m, tz), e |-> e + tz] :
                tz \in {TrailingZeros(m)}})

\* q, or q + 1 when the d bits dropped from m round up (ties to even)
RoundUp(m, d, q) ==
    IF Bit(m, d - 1) = 1 /\ (~LowZero(m, d - 1) \/ Bit(m, d) = 1)
    THEN BigAdd(q, <<1>>) ELSE q

\* the binary64 number nearest to (-1)^neg * m * 2^e
Round(neg, m, e) ==
    The({IF d <= 0 THEN Canon(neg, v, e)
         ELSE The({Canon(neg, q, e + d) :
                     q \in {RoundUp(v, d, ShiftRight(v, d))}}) :
            v \in {m}, d \in {BitLen(m) - Precision}})

FloatOfInt(x) == Canon(x < 0, BigOfInt(Abs(x)), 0)
One == FloatOfInt(1)

FNeg(x) == IF x.m = <<>> THEN x ELSE [x EXCEPT !.neg = ~x.neg]

\* the operators below bind their operands first, so that each is
\* evaluated once
FMul(x, y) ==
    The({IF a.m = <<>> \/ b.m = <<>> THEN Zero
         ELSE Round(a.neg # b.neg, BigMul(a.m, b.m), a.e + b.e) :
            a \in {x}, b \in {y}})

AddAligned(x, y, a, b, e) ==
    IF x.neg = y.neg THEN Round(x.neg, BigAdd(a, b), e)
    ELSE IF a = b THEN Zero
    ELSE IF BigLess(a, b) THEN Round(y.neg, BigSub(b, a), e)
    ELSE Round(x.neg, BigSub(a, b), e)

FAdd(x, y) ==
    The({IF u.m = <<>> THEN v
         ELSE IF v.m = <<>> THEN u
         ELSE The({AddAligned(u, v, a, b, Min(u.e, v.e)) :
                     a \in {ShiftLeft(u.m, u.e - Min(u.e, v.e))},
                     b \in {ShiftLeft(v.m, v.e - Min(u.e, v.e))}}) :
            u \in {x}, v \in {y}})

FSub(x, y) == FAdd(x, FNeg(y))

\* x * y, not rounded
Product(x, y) ==
    The({IF a.m = <<>> \/ b.m = <<>> THEN Zero
         ELSE [neg |-> a.neg # b.neg, m |-> BigMul(a.m, b.m),
               e |-> a.e + b.e] :
            a \in {x}, b \in {y}})

\* the fused multiply-add: c + x * y, rounded once
FMulAdd(c, x, y) ==
    The({IF p.m = <<>> THEN d
         ELSE IF d.m = <<>> THEN Round(p.neg, p.m, p.e)
         ELSE FAdd(d, p) :
            p \in {Product(x, y)}, d \in {c}})

\* c + x * y and c - x * y, as a build with (fused) or without fused
\* multiply-add instructions computes them
MulAdd(c, x, y, fused) ==
    IF fused THEN FMulAdd(c, x, y) ELSE FAdd(c, FMul(x, y))

MulSub(c, x, y, fused) == MulAdd(c, FNeg(x), y, fused)

\* one more bit of the quotient: s holds the remainder r (r < 2 * b) and the
\* bits q found so far
QuotientBit(s, b) ==
    IF BigLess(s.r, b)
    THEN [r |-> ShiftLeft(s.r, 1), q |-> ShiftLeft(s.q, 1)]
    ELSE [r |-> ShiftLeft(BigSub(s.r, b), 1),
          q |-> BigAdd(ShiftLeft(s.q, 1), <<1>>)]

\* k more bits
RECURSIVE QuotientBits(_, _, _)
QuotientBits(s, b, k) ==
    IF k = 0 THEN s
    ELSE The({QuotientBits(t, b, k - 1) : t \in {QuotientBit(s, b)}})

\* n more groups of ChunkBits bits
RECURSIVE QuotientChunks(_, _, _)
QuotientChunks(s, b, n) ==
    IF n = 0 THEN s
    ELSE The({QuotientChunks(t, b, n - 1) :
                t \in {QuotientBits(s, b, ChunkBits)}})

\* the Precision + 3 leading bits of a / b for a and b of the same bit
\* length, with one more bit that says whether a remainder is left
Quotient(a, b) ==
    The({BigAdd(ShiftLeft(s.q, 1), IF s.r # <<>> THEN <<1>> ELSE <<>>) :
            s \in {QuotientChunks([r |-> a, q |-> <<>>], b,
                                  (Precision + 3) \div ChunkBits)}})

DivAligned(x, y, la, lb) ==
    The({Round(x.neg # y.neg, m,
               (x.e - (Max(la, lb) - la)) - (y.e - (Max(la, lb) - lb))
                 - (Precision + 3)) :
            m \in {The({Quotient(a, b) :
                          a \in {ShiftLeft(x.m, Max(la, lb) - la)},
                          b \in {ShiftLeft(y.m, Max(la, lb) - lb)}})}})

\* x / y for y # 0
FDiv(x, y) ==
    The({IF u.m = <<>> THEN Zero
         ELSE The({DivAligned(u, v, la, lb) :
                     la \in {BitLen(u.m)}, lb \in {BitLen(v.m)}}) :
            u \in {x}, v \in {y}})

\* |x| < |y|
FAbsLess(x, y) ==
    \E u \in {x}, v \in {y} :
        /\ v.m # <<>>
        /\ \/ u.m = <<>>
           \/ BigLess(ShiftLeft(u.m, u.e - Min(u.e, v.e)),
                      ShiftLeft(v.m, v.e - Min(u.e, v.e)))

\* ---------------------------------------------------------- linear algebra
\* X.T @ X as a sequence of rows
Gram(X) ==
    LET n == X.shape[1]
        m == X.shape[2]
    IN  [i \in 1..m |-> [j \in 1..m |->
            SumSeq([t \in 1..n |-> X.rows[t][i] * X.rows[t][j]])]]

\* X.T.dot(y)
XtDot(X, y) ==
    [i \in 1..X.shape[2] |->
        SumSeq([t \in 1..X.shape[1] |-> X.rows[t][i] * y[t]])]

\* whether the square matrix M is singular, by fraction-free elimination
\* from column k on (prev is the previous pivot)
RECURSIVE SingularFrom(_, _, _)
SingularFrom(M, k, prev) ==
    LET n    == Len(M)
        cand == {i \in k..n : M[i][k] # 0}
        p    == CHOOSE i \in cand : \A h \in cand : i <= h
        S    == [M EXCEPT ![k] = M[p], ![p] = M[k]]
        U    == [i \in 1..n |-> [j \in 1..n |->
                    IF i > k /\ j > k
                    THEN MulSubDiv(S[k][k], S[i][j], S[i][k], S[k][j], prev)
                    ELSE S[i][j]]]
    IN  IF k > n THEN FALSE
        ELSE IF cand = {} THEN TRUE
        ELSE SingularFrom(U, k + 1, S[k][k])

Singular(A) == SingularFrom(A, 1, 1)

\* the sequence f[1], ..., f[n], every entry evaluated once
RECURSIVE Tuple(_, _)
Tuple(f, n) == IF n = 0 THEN <<>> ELSE Append(Tuple(f, n - 1), f[n])

\* numpy.linalg.inv(A) calls LAPACK's gesv on A and the identity: getrf
\* factors A = P L U in binary64 with partial pivoting, getrs solves
\* L U x = P e for every column e of the identity; LinAlgError is raised
\* exactly when getrf meets a pivot that is the binary64 number 0.  The
\* factors depend on the build of LAPACK: the pivot column is scaled by the
\* rounded reciprocal of the pivot or divided by the pivot, and a product
\* and the sum it enters are rounded separately or once (fused
\* multiply-add).
Scalings == {"reciprocal", "divide"}
Fusings == {FALSE, TRUE}

\* the rows of S after the elimination with pivot S[k][k]: the multipliers
\* in column k, the updated entries to their right
Eliminate(S, k, scale, fused) ==
    Tuple([i \in 1..Len(S) |->
              IF i <= k THEN S[i]
              ELSE The({Tuple([j \in 1..Len(S) |->
                                  IF j < k THEN S[i][j]
                                  ELSE IF j = k THEN l
                                  ELSE MulSub(S[i][j], l, S[k][j], fused)],
                              Len(S)) :
                          l \in {IF scale = "reciprocal"
                                 THEN FMul(S[i][k], FDiv(One, S[k][k]))
                                 ELSE FDiv(S[i][k], S[k][k])}})],
          Len(S))

\* getrf from column k on: M holds the factors found so far, perm[i] is the
\* row of A that is now row i
RECURSIVE GetrfFrom(_, _, _, _, _)
GetrfFrom(M, perm, k, scale, fused) ==
    The({IF S[k][k].m = <<>> THEN [zero |-> TRUE, lu |-> S, perm |-> P]
         ELSE IF k = Len(M) THEN [zero |-> FALSE, lu |-> S, perm |-> P]
         ELSE The({GetrfFrom(U, P, k + 1, scale, fused) :
                     U \in {Eliminate(S, k, scale, fused)}}) :
            S \in {[M EXCEPT ![k] = M[p], ![p] = M[k]] :
                      p \in {CHOOSE i \in k..Len(M) :
                               /\ \A h \in k..Len(M) :
                                    ~FAbsLess(M[i][k], M[h][k])
                               /\ \A h \in k..(i - 1) :
                                    FAbsLess(M[h][k], M[i][k])}},
            P \in {[perm EXCEPT ![k] = perm[p], ![p] = perm[k]] :
                      p \in {CHOOSE i \in k..Len(M) :
                               /\ \A h \in k..Len(M) :
                                    ~FAbsLess(M[i][k], M[h][k])
                               /\ \A h \in k..(i - 1) :
                                    FAbsLess(M[h][k], M[i][k])}}})

Getrf(A, scale, fused) ==
    The({GetrfFrom(M, P, 1, scale, fused) :
            M \in {Tuple([i \in 1..Len(A) |->
                            Tuple([j \in 1..Len(A) |-> FloatOfInt(A[i][j])],
                                  Len(A))], Len(A))},
            P \in {Tuple([i \in 1..Len(A) |-> i], Len(A))}})

\* The solution of A w = b for an invertible A, by fraction-free
\* Gauss-Jordan elimination of the rows M = [A | b] from column c on: every
\* entry stays an integer, and after the last column M[i][n + 1] / prev is
\* the i-th unknown.
RECURSIVE GaussJordan(_, _, _)
GaussJordan(M, c, prev) ==
    LET n    == Len(M)
        cand == {i \in c..n : M[i][c] # 0}
        p    == CHOOSE i \in cand : \A h \in cand : i <= h
        S    == [M EXCEPT ![c] = M[p], ![p] = M[c]]
        piv  == S[c][c]
        U    == [i \in 1..n |->
                    IF i = c THEN S[c]
                    ELSE [j \in 1..(n + 1) |->
                            MulSubDiv(piv, S[i][j], S[i][c], S[c][j], prev)]]
    IN  IF c > n THEN [M |-> M, den |-> prev]
        ELSE GaussJordan(U, c + 1, piv)

\* inv(A) @ b in exact arithmetic: numerators over one denominator
Solve(A, b) ==
    LET n  == Len(A)
        gj == GaussJordan([i \in 1..n |-> Append(A[i], b[i])], 1, 1)
    IN  [num |-> [j \in 1..n |-> gj.M[j][n + 1]], den |-> gj.den]

\* lines 175-178: const and the lag weights, as fractions over one
\* denominator: the least-squares solution when A is invertible
Coefficients(A, b) ==
    LET w == Solve(A, b)
    IN  [kind |-> "solved", const |-> w.num[1], w |-> SliceFrom(w.num, 1),
         den |-> w.den]

\* When A is singular and getrf has met no zero pivot, inv returns a finite
\* matrix whose entries are rounding errors divided by a last pivot that is
\* itself a rounding error.  The coefficients and the prediction computed
\* from it are finite binary64 numbers, but which numbers depends on the
\* order and the fusing of every operation of the factorisation, of the
\* triangular solves and of the products, that is on the build of LAPACK and
\* BLAS: the source does not determine them.  They are held as unspecified:
\* any n finite numbers.
GarbageCoefficients == [kind |-> "garbage"]
UnspecifiedSeq(n) == [kind |-> "unspecified", len |-> n]
Unspecified(p) == "kind" \in DOMAIN p

\* line 179: const + (Xdsgn @ wsta_offset)
PredLin(X, coef) ==
    Normalize([t \in 1..X.shape[1] |->
                  coef.const + SumSeq([j \in 1..X.shape[2] |->
                                          X.rows[t][j] * coef.w[j]])],
              coef.den)

\* a product that ignores the counts beyond the last row
DotOkTruncating(X, y) == X.shape[1] <= Len(y)

\* Xdsgn_offset.T.dot(spikes_binned) (line 176) needs one count for every
\* row of Xdsgn_offset
DotOk(X, y) == X.shape[1] = Len(y)

\* lines 175-179.  The operands of the product are evaluated from left to
\* right: inv raises before the shapes of the second operand are compared.
\* An invertible matrix is factored without a zero pivot and the fit is held
\* as the exact least-squares solution, from which the binary64 numbers of
\* the script differ by rounding; for a singular matrix that is factored
\* without a zero pivot the coefficients and the prediction are unspecified.
FitLinGauss ==
    /\ pc = "lgfit"
    /\ \E A \in {Gram(Xdsgn_offset)} :
         \E scale \in Scalings, fused \in Fusings :
           \E f \in {Getrf(A, scale, fused)} :
             IF f.zero
             THEN /\ pc' = "error"
                  /\ err' = "LinAlgError"
                  /\ UNCHANGED <<wsta_offset, spikes_pred_lgGLM_offset>>
             ELSE IF ~DotOk(Xdsgn_offset, spikes_binned)
             THEN \* np.dot: "shapes not aligned"
                  /\ pc' = "error"
                  /\ err' = "ValueError"
                  /\ UNCHANGED <<wsta_offset, spikes_pred_lgGLM_offset>>
             ELSE /\ IF Singular(A)
                     THEN /\ wsta_offset' = GarbageCoefficients
                          /\ spikes_pred_lgGLM_offset' =
                                 UnspecifiedSeq(Xdsgn.shape[1])
                     ELSE \E coef \in {Coefficients(A,
                                 XtDot(Xdsgn_offset, spikes_binned))} :
                            /\ wsta_offset' = coef
                            /\ spikes_pred_lgGLM_offset' =
                                   PredLin(Xdsgn, coef)
                  /\ pc' = "poisson"
                  /\ UNCHANGED err
    /\ UNCHANGED <<stim, spike_time, n_t_filt, n_t_hist, t_bins,
                   spikes_binned, stim_padded, Xdsgn, Xdsgn_offset,
                   glm_poisson, spikes_pred_poissonGLM, Xstim, Xspikes,
                   Xdsgn_hist, glm_poisson_hist, spikes_pred_poissonGLM_hist,
                   r2>>

\* ------------------------------------------------------------ Poisson GLM
\* GLM(distr='poisson').fit and .predict belong to the solver library, which
\* is not part of the repository; the specification describes them as a
\* black box whose prediction applies a link function to
\* intercept + design_matrix . coefficients, one value per row.  The
\* estimate itself is not modelled: the intercept beta0 and the weight of
\* the most recent lag (the last column) are any natural numbers with
\* beta0 + weight <= MaxLogRate, every other weight is 0, and the inverse
\* link is taken to base 2, so that every rate is a binary64 number.
PoissonFits(m) ==
    {[beta0 |-> p[1], beta |-> [j \in 1..m |-> IF j = m THEN p[2] ELSE 0]] :
        p \in {q \in (0..MaxLogRate) \X (0..MaxLogRate) :
                  q[1] + q[2] <= MaxLogRate}}

\* glm.predict(X): one rate per row of X
PredPoisson(X, fit) ==
    Normalize([t \in 1..X.shape[1] |->
                  2 ^ (fit.beta0 + SumSeq([j \in 1..X.shape[2] |->
                                              X.rows[t][j] * fit.beta[j]]))],
              1)

\* lines 192-204
FitPoisson ==
    /\ pc = "poisson"
    /\ \E fit \in PoissonFits(Xdsgn.shape[2]) :
         /\ glm_poisson' = fit
         /\ spikes_pred_poissonGLM' = PredPoisson(Xdsgn, fit)
    /\ pc' = "hist"
    /\ UNCHANGED <<err, stim, spike_time, n_t_filt, n_t_hist, t_bins,
                   spikes_binned, stim_padded, Xdsgn, Xdsgn_offset,
                   wsta_offset, spikes_pred_lgGLM_offset, Xstim, Xspikes,
                   Xdsgn_hist, glm_poisson_hist, spikes_pred_poissonGLM_hist,
                   r2>>

\* the history embedding built with the idiom of the stimulus embedding
\* (padding H - 1): the unshifted window, which ends at the current bin
XspikesOfUnshifted(c, s, H) ==
    hankel(SliceTo(PadLeft(c, H - 1), 1 - H), SliceFrom(s, -H))

\* lines 218, 221: the spike-history embedding of counts c with window H
SpikesPadded(c, H) == PadLeft(c, H)
XspikesOf(c, s, H) == hankel(SliceTo(SpikesPadded(c, H), -H), SliceFrom(s, -H))

\* lines 214-222
BuildHist ==
    /\ pc = "hist"
    /\ \E H \in 0..MaxHist :
         /\ n_t_hist' = H
         /\ Xstim' = hankel(SliceTo(stim_padded, 1 - n_t_filt),
                            SliceFrom(stim, -n_t_filt))
         /\ Xspikes' = XspikesOf(spikes_binned, stim, H)
         /\ IF HstackOk(Xstim', Xspikes')
            THEN /\ Xdsgn_hist' = hstack(Xstim', Xspikes')
                 /\ pc' = "poisson_hist"
                 /\ UNCHANGED err
            ELSE \* np.hstack: the array dimensions must match exactly
                 /\ pc' = "error"
                 /\ err' = "ValueError"
                 /\ UNCHANGED Xdsgn_hist
    /\ UNCHANGED <<stim, spike_time, n_t_filt, t_bins, spikes_binned,
                   stim_padded, Xdsgn, Xdsgn_offset, wsta_offset,
                   spikes_pred_lgGLM_offset, glm_poisson,
                   spikes_pred_poissonGLM, glm_poisson_hist,
                   spikes_pred_poissonGLM_hist, r2>>

\* lines 226-236
FitPoissonHist ==
    /\ pc = "poisson_hist"
    /\ \E fit \in PoissonFits(Xdsgn_hist.shape[2]) :
         /\ glm_poisson_hist' = fit
         /\ spikes_pred_poissonGLM_hist' = PredPoisson(Xdsgn_hist, fit)
    /\ pc' = "score"
    /\ UNCHANGED <<err, stim, spike_time, n_t_filt, n_t_hist, t_bins,
                   spikes_binned, stim_padded, Xdsgn, Xdsgn_offset,
                   wsta_offset, spikes_pred_lgGLM_offset, glm_poisson,
                   spikes_pred_poissonGLM, Xstim, Xspikes, Xdsgn_hist, r2>>

\* ------------------------------------------------------------- evaluation
\* the number of limbs of the largest of the natural numbers D[t]
Width(D) ==
    IF \A t \in 1..Len(D) : D[t] < Radix THEN 1
    ELSE IF \A t \in 1..Len(D) : D[t] < Radix ^ 2 THEN 2
    ELSE IF \A t \in 1..Len(D) : D[t] < Radix ^ 3 THEN 3
    ELSE 4

\* the sum over t of the squares of the numbers whose w limbs are L[t],
\* position by position
SumSqLimbs(L, w) ==
    [k \in 1..(2 * w - 1) |->
        SumSeq([i \in 1..w |->
            IF k + 1 - i \in 1..w
            THEN SumSeq([t \in 1..Len(L) |-> L[t][i] * L[t][k + 1 - i]])
            ELSE 0])]

\* the sum of the squares of the natural numbers in the sequence D
SumSq(D, w) ==
    The({BigNorm(c) :
            c \in {SumSqLimbs(L, w) :
                      L \in {[t \in 1..Len(D) |->
                                 [i \in 1..w |-> Limb(D[t], i - 1)]]}}})
BigSumSq(D) == The({SumSq(v, Width(v)) : v \in {D}})

\* np.mean(y), broadcast over the bins
Mean(y) == The({Normalize([t \in 1..Len(y) |-> s], Len(y)) : s \in {SumSeq(y)}})

\* np.mean((y - p) ** 2) as a fraction, for the prediction q
SqErr(y, q) ==
    [n |-> BigSumSq([t \in 1..Len(y) |-> Abs(q.den * y[t] - q.num[t])]),
     d |-> BigMul(BigOfInt(Len(y)), BigMul(BigOfInt(q.den), BigOfInt(q.den)))]
MeanSqErr(y, p) == The({SqErr(y, q) : q \in {p}})

\* the null-model error with the sample variance (ddof = 1) in place of the
\* mean of the squared deviations
RssSampleVar(y) ==
    The({[n |-> MeanSqErr(y, m).n,
          d |-> BigMul(BigOfInt(Len(y) - 1),
                       BigMul(BigOfInt(m.den), BigOfInt(m.den)))] :
            m \in {Mean(y)}})

\* line 267
Rss(y) == MeanSqErr(y, Mean(y))

\* the values 1 - mse / rss can take in binary64.  x / 0 is inf for x > 0
\* and nan for x = 0; a prediction that equals the counts in exact
\* arithmetic, but is held here as the exact least-squares solution in place
\* of the binary64 numbers the script computes (rounded), may or may not
\* equal them in binary64.  A finite value is sign * n / d.
OneMinusRatio(mse, rss, rounded) ==
    IF rss.n = <<>>
    THEN IF mse.n # <<>> THEN {[kind |-> "-inf"]}
         ELSE IF rounded THEN {[kind |-> "nan"], [kind |-> "-inf"]}
         ELSE {[kind |-> "nan"]}
    ELSE LET x == BigMul(mse.n, rss.d)
             d == BigMul(mse.d, rss.n)
         IN  {[kind |-> "finite",
               sign |-> IF x = d THEN 0 ELSE IF BigLess(x, d) THEN 1 ELSE -1,
               n |-> IF BigLess(x, d) THEN BigSub(d, x) ELSE BigSub(x, d),
               d |-> d]}

\* the values 1 - mse / rss can take for a prediction of unspecified finite
\* numbers: mse is 0 or positive
UnspecifiedRatio(rss) ==
    IF rss.n = <<>> THEN {[kind |-> "nan"], [kind |-> "-inf"]}
    ELSE {[kind |-> "unspecified"]}

\* the number of entries of a sequence of floats
SeqLen(p) == IF Unspecified(p) THEN p.len ELSE Len(p.num)

\* a[sample_index] for a sequence of floats
TakeOkSeq(p, index) == \A i \in 1..Len(index) : index[i] < SeqLen(p)

\* lines 245-274: the three predictions are plotted over sample_index and
\* scored against the counts
Score ==
    /\ pc = "score"
    /\ IF /\ TakeOk(spikes_binned, sample_index)
          /\ TakeOkSeq(spikes_pred_lgGLM_offset, sample_index)
          /\ TakeOkSeq(spikes_pred_poissonGLM, sample_index)
          /\ TakeOkSeq(spikes_pred_poissonGLM_hist, sample_index)
       THEN /\ \E rss \in {Rss(spikes_binned)},
                  mse_poissonGLM \in
                      {MeanSqErr(spikes_binned, spikes_pred_poissonGLM)},
                  mse_poissonGLM_hist \in
                      {MeanSqErr(spikes_binned,
                                 spikes_pred_poissonGLM_hist)} :
                 \E a \in IF Unspecified(spikes_pred_lgGLM_offset)
                           THEN UnspecifiedRatio(rss)
                           ELSE OneMinusRatio(
                                    MeanSqErr(spikes_binned,
                                              spikes_pred_lgGLM_offset),
                                    rss, TRUE),
                    b \in OneMinusRatio(mse_poissonGLM, rss, FALSE),
                    c \in OneMinusRatio(mse_poissonGLM_hist, rss, FALSE) :
                   r2' = [lgGLM_offset |-> a, poissonGLM |-> b,
                          poissonGLM_hist |-> c]
            /\ pc' = "done"
            /\ UNCHANGED err
       ELSE /\ pc' = "error"
            /\ err' = "IndexError"
            /\ UNCHANGED r2
    /\ UNCHANGED <<stim, spike_time, n_t_filt, n_t_hist, t_bins,
                   spikes_binned, stim_padded, Xdsgn, Xdsgn_offset,
                   wsta_offset, spikes_pred_lgGLM_offset, glm_poisson,
                   spikes_pred_poissonGLM, Xstim, Xspikes, Xdsgn_hist,
                   glm_poisson_hist, spikes_pred_poissonGLM_hist>>

\* the reported values before the script has computed them
NoScore == [lgGLM_offset |-> [kind |-> "unset"],
            poissonGLM |-> [kind |-> "unset"],
            poissonGLM_hist |-> [kind |-> "unset"]]

\* a Poisson GLM that has not been fit
NoFit == [beta0 |-> 0, beta |-> <<>>]

ScriptInit ==
    /\ pc = "bin"
    /\ err = "none"
    /\ stim \in StimSeqs
    /\ spike_time \in SpikeTrains(stim)
    /\ n_t_filt = 0
    /\ n_t_hist = 0
    /\ t_bins = <<>>
    /\ spikes_binned = <<>>
    /\ stim_padded = <<>>
    /\ Xdsgn = None
    /\ Xdsgn_offset = None
    /\ wsta_offset = [kind |-> "unset"]
    /\ spikes_pred_lgGLM_offset = NoSeq
    /\ glm_poisson = NoFit
    /\ spikes_pred_poissonGLM = NoSeq
    /\ Xstim = None
    /\ Xspikes = None
    /\ Xdsgn_hist = None
    /\ glm_poisson_hist = NoFit
    /\ spikes_pred_poissonGLM_hist = NoSeq
    /\ r2 = NoScore

\* what the variables of the script hold while only the GLM object is used
ScriptIdle ==
    /\ pc = "idle"
    /\ err = "none"
    /\ stim = <<>>
    /\ spike_time = <<>>
    /\ n_t_filt = 0
    /\ n_t_hist = 0
    /\ t_bins = <<>>
    /\ spikes_binned = <<>>
    /\ stim_padded = <<>>
    /\ Xdsgn = None
    /\ Xdsgn_offset = None
    /\ wsta_offset = [kind |-> "unset"]
    /\ spikes_pred_lgGLM_offset = NoSeq
    /\ glm_poisson = NoFit
    /\ spikes_pred_poissonGLM = NoSeq
    /\ Xstim = None
    /\ Xspikes = None
    /\ Xdsgn_hist = None
    /\ glm_poisson_hist = NoFit
    /\ spikes_pred_poissonGLM_hist = NoSeq
    /\ r2 = NoScore

\* ------------------------------------------------ regularization-path GLM
\* glm.reg_lambda holds the positions (in the fitted path) of the lambdas the
\* object keeps; glm.single says the object was selected by an integer.
NoCall == [op |-> "none"]

\* GLM(distr): not fit yet
GlmNew == [fitted |-> FALSE, reg_lambda |-> <<>>, single |-> FALSE]

\* glm.fit(X, y): one fit per lambda of the path
GlmFitted == [fitted |-> TRUE, reg_lambda |-> [i \in 1..n_lambda |-> i],
              single |-> FALSE]

\* glm[lo:hi] on a fitted path
GlmGetSlice(g, lo, hi) ==
    [g EXCEPT !.reg_lambda = SliceFrom(SliceTo(g.reg_lambda, hi), lo)]

\* glm[i] on a fitted path
GlmGetInt(g, i) ==
    [g EXCEPT !.reg_lambda = <<g.reg_lambda[i + 1]>>, !.single = TRUE]

\* a predict that keeps the leading path dimension for a single model
GlmPredictShapeKeepDim(g, n) == <<Len(g.reg_lambda), n>>

\* glm.predict(X).shape for X with n rows
GlmPredictShape(g, n) ==
    IF g.single THEN <<n>> ELSE <<Len(g.reg_lambda), n>>

GlmIdle ==
    /\ glm = GlmNew
    /\ glm_call = NoCall
    /\ y_pred_shape = <<>>
    /\ glm_err = "none"

GlmFit ==
    /\ ~glm.fitted
    /\ glm' = GlmFitted
    /\ glm_call' = [op |-> "fit"]
    /\ glm_err' = "none"
    /\ UNCHANGED y_pred_shape

\* glm = glm[lo:hi]
GlmSlice ==
    /\ ~glm.single
    /\ \E lo \in 0..n_lambda, hi \in 0..n_lambda :
         /\ lo <= hi
         /\ glm_call' = [op |-> "slice", lo |-> lo, hi |-> hi,
                         len |-> Len(glm.reg_lambda)]
         /\ IF ~glm.fitted
            THEN /\ glm_err' = "ValueError"
                 /\ UNCHANGED glm
            ELSE /\ glm_err' = "none"
                 /\ glm' = GlmGetSlice(glm, lo, hi)
    /\ UNCHANGED y_pred_shape

\* glm = glm[i]
GlmIndex ==
    /\ ~glm.single
    /\ \E i \in 0..n_lambda :
         /\ glm_call' = [op |-> "int", i |-> i, len |-> Len(glm.reg_lambda)]
         /\ IF ~glm.fitted
            THEN /\ glm_err' = "ValueError"
                 /\ UNCHANGED glm
            ELSE IF i >= Len(glm.reg_lambda)
            THEN /\ glm_err' = "IndexError"
                 /\ UNCHANGED glm
            ELSE /\ glm_err' = "none"
                 /\ glm' = GlmGetInt(glm, i)
    /\ UNCHANGED y_pred_shape

\* glm.__getitem__([i]): a key that is neither a slice nor an integer
GlmIndexList ==
    /\ ~glm.single
    /\ glm_call' = [op |-> "list"]
    /\ glm_err' = IF glm.fitted THEN "IndexError" ELSE "ValueError"
    /\ UNCHANGED <<glm, y_pred_shape>>

\* y_pred = glm.predict(X)
GlmPredict ==
    /\ glm.fitted
    /\ \E n \in 1..MaxSamples :
         /\ glm_call' = [op |-> "predict", n |-> n]
         /\ y_pred_shape' = GlmPredictShape(glm, n)
    /\ glm_err' = "none"
    /\ UNCHANGED glm

GlmNext ==
    \/ GlmFit /\ UNCHANGED scriptVars
    \/ GlmSlice /\ UNCHANGED scriptVars
    \/ GlmIndex /\ UNCHANGED scriptVars
    \/ GlmIndexList /\ UNCHANGED scriptVars
    \/ GlmPredict /\ UNCHANGED scriptVars

GlmInit == ScriptIdle /\ GlmIdle

SpecGlm == GlmInit /\ [][GlmNext]_vars

Init == ScriptInit /\ GlmIdle

Next ==
    \/ BinSpikes /\ UNCHANGED glmVars
    \/ PlotSample /\ UNCHANGED glmVars
    \/ BuildXdsgn /\ UNCHANGED glmVars
    \/ AddOffset /\ UNCHANGED glmVars
    \/ FitLinGauss /\ UNCHANGED glmVars
    \/ FitPoisson /\ UNCHANGED glmVars
    \/ BuildHist /\ UNCHANGED glmVars
    \/ FitPoissonHist /\ UNCHANGED glmVars
    \/ Score /\ UNCHANGED glmVars

Spec == Init /\ [][Next]_vars

\* the script run on supplied bin edges
NextSupplied ==
    \/ BinSpikesSupplied /\ UNCHANGED glmVars
    \/ PlotSample /\ UNCHANGED glmVars
    \/ BuildXdsgn /\ UNCHANGED glmVars
    \/ AddOffset /\ UNCHANGED glmVars
    \/ FitLinGauss /\ UNCHANGED glmVars
    \/ FitPoisson /\ UNCHANGED glmVars
    \/ BuildHist /\ UNCHANGED glmVars
    \/ FitPoissonHist /\ UNCHANGED glmVars
    \/ Score /\ UNCHANGED glmVars

SpecSupplied == Init /\ [][NextSupplied]_vars
\* ================================================================ claims
ValidWindow(w) == 1 <= w /\ w < n_t
DesignBuilt == pc \notin {"idle", "bin", "plot", "design"} /\ Xdsgn # None
\* line 218 has been executed
HistAttempted == spikes_pred_poissonGLM # NoSeq /\ pc # "hist"
HistBuilt == Xdsgn_hist # None

\* C1: for every window 1 <= L < N the stimulus design matrix has entry
\* X[t,k] = s[t-L+1+k] when t-L+1+k >= 0 and 0 otherwise, for every row t in
\* [0,N) and column k in [0,L), the last L-1 rows included.
C1_StimulusEmbedding ==
    (DesignBuilt /\ ValidWindow(n_t_filt)) =>
        /\ Xdsgn.shape = <<n_t, n_t_filt>>
        /\ \A t \in 0..(n_t - 1), k \in 0..(n_t_filt - 1) :
             Xdsgn.rows[t + 1][k + 1] =
                 IF t - n_t_filt + 1 + k >= 0
                 THEN stim[t - n_t_filt + 1 + k + 1] ELSE 0

\* C2: for every history window 1 <= H < N the history block has entry
\* c[t-H+j] when t-H+j >= 0 and 0 otherwise, for every row t in [0,N) and
\* history column j in [0,H), c being the binned spike counts.
C2_HistoryEmbedding ==
    (HistBuilt /\ ValidWindow(n_t_hist)) =>
        /\ Xspikes.shape = <<n_t, n_t_hist>>
        /\ \A t \in 0..(n_t - 1), j \in 0..(n_t_hist - 1) :
             Xspikes.rows[t + 1][j + 1] =
                 IF t - n_t_hist + j >= 0
                 THEN spikes_binned[t - n_t_hist + j + 1] ELSE 0

\* C3: causality as noninterference.  A run whose spike counts differ from
\* this one's only at index t builds the same history columns in row t and in
\* every earlier row; a run whose stimulus differs only at index t builds the
\* same combined design matrix in every row before t.  The matrices are
\* compared in the state that follows their construction (no later step
\* changes them).
C3_Causality ==
    pc = "poisson_hist" =>
        /\ \A t \in 1..n_t :
             \A v \in (0..MaxCount) \ {spikes_binned[t]} :
               \A X2 \in {XspikesOf([spikes_binned EXCEPT ![t] = v], stim,
                                    n_t_hist)} :
                 /\ X2.shape = Xspikes.shape
                 /\ \A u \in 1..t : X2.rows[u] = Xspikes.rows[u]
        /\ \A t \in 1..n_t :
             \A s2 \in {[stim EXCEPT ![t] = v] : v \in StimValues \ {stim[t]}} :
               \A X2 \in {hstack(XdsgnOf(s2, n_t_filt),
                                 XspikesOf(spikes_binned, s2, n_t_hist))} :
                 /\ X2.shape = Xdsgn_hist.shape
                 /\ \A u \in 1..(t - 1) : X2.rows[u] = Xdsgn_hist.rows[u]

\* C3 witness: a combined design matrix with a history window of at least two
\* bins, built from counts whose perturbation at some bin does change the
\* history columns of the next row.
C3_Witness ==
    /\ pc = "poisson_hist"
    /\ ValidWindow(n_t_filt)
    /\ ValidWindow(n_t_hist)
    /\ n_t_hist >= 2
    /\ \E t \in 1..(n_t - 1), v \in 0..MaxCount :
         /\ v # spikes_binned[t]
         /\ XspikesOf([spikes_binned EXCEPT ![t] = v], stim,
                      n_t_hist).rows[t + 1] # Xspikes.rows[t + 1]

\* C4: for every valid window (1 <= L < N, L = 1 included) the stimulus
\* embedding has shape (N, L); with the bias column (N, L+1); with a history
\* embedding of valid window H the combined matrix has shape (N, L+H).
C4_ShapeInvariant ==
    /\ (DesignBuilt /\ ValidWindow(n_t_filt)) =>
            Xdsgn.shape = <<n_t, n_t_filt>>
    /\ (DesignBuilt /\ pc # "offset" /\ ValidWindow(n_t_filt)) =>
            /\ Xdsgn_offset # None
            /\ Xdsgn_offset.shape = <<n_t, n_t_filt + 1>>
    /\ (HistAttempted /\ ValidWindow(n_t_filt) /\ ValidWindow(n_t_hist)) =>
            /\ Xdsgn_hist # None
            /\ Xdsgn_hist.shape = <<n_t, n_t_filt + n_t_hist>>

\* C5: a lag window or history window that is non-positive or >= N ends the
\* construction in an error before any matrix is constructed: no stimulus
\* embedding, history embedding or combined matrix is produced.
C5_InvalidWindowRejected ==
    /\ (pc \notin {"idle", "bin", "plot", "design"} /\ err # "IndexError"
            /\ ~ValidWindow(n_t_filt)) =>
            pc = "error" /\ Xdsgn = None
    /\ (HistAttempted /\ ValidWindow(n_t_filt) /\ ~ValidWindow(n_t_hist)) =>
            /\ pc = "error"
            /\ Xstim = None /\ Xspikes = None /\ Xdsgn_hist = None

\* the three reported values
Reported == {r2.lgGLM_offset, r2.poissonGLM, r2.poissonGLM_hist}

Exact(p) == p = [num |-> spikes_binned, den |-> 1]
NullModel(p) == p = Mean(spikes_binned)
\* the predictions with their reported values; a prediction of unspecified
\* numbers has an unspecified finite value and is left out
Scored == {s \in {<<spikes_pred_lgGLM_offset, r2.lgGLM_offset>>,
                  <<spikes_pred_poissonGLM, r2.poissonGLM>>,
                  <<spikes_pred_poissonGLM_hist, r2.poissonGLM_hist>>} :
             ~Unspecified(s[1])}
IsOne(r) == r.kind = "finite" /\ r.sign = 1 /\ r.n = r.d
IsZero(r) == r.kind = "finite" /\ r.sign = 0

C7_NullModelScored ==
    /\ pc = "done"
    /\ Rss(spikes_binned).n # <<>>
    /\ NullModel(spikes_pred_poissonGLM)
    /\ IsZero(r2.poissonGLM)

\* the lambdas of a path of length len that the slice lo:hi selects
Selected(lo, hi, len) == {q \in 0..(len - 1) : lo <= q /\ q < hi}

\* C8: indexing a fitted model with a slice of k lambdas yields a model whose
\* reg_lambda has length k and whose predict has shape (k, n_samples);
\* indexing with an integer yields one fitted model whose predict has shape
\* (n_samples,); indexing a model that has not been fit raises ValueError.
C8_PathIndexing ==
    /\ (glm_call.op = "slice" /\ glm_err = "none") =>
          /\ glm.fitted /\ ~glm.single
          /\ Len(glm.reg_lambda) =
                 Cardinality(Selected(glm_call.lo, glm_call.hi, glm_call.len))
    /\ (glm_call.op = "int" /\ glm_err = "none") =>
          glm.fitted /\ glm.single /\ Len(glm.reg_lambda) = 1
    /\ (glm_call.op \in {"slice", "int"} /\ ~glm.fitted) =>
          glm_err = "ValueError"
    /\ glm_call.op = "predict" =>
          y_pred_shape = IF glm.single THEN <<glm_call.n>>
                         ELSE <<Len(glm.reg_lambda), glm_call.n>>

\* C8 witness: predict on the single model selected by an integer from a
\* sliced path.
C8_Witness ==
    /\ glm_call.op = "predict"
    /\ glm.single
    /\ glm.reg_lambda = <<3>>
    /\ y_pred_shape = <<glm_call.n>>

\* C9: whenever the normal-equations matrix of the bias-augmented design
\* matrix is singular the fit ends in an error and no coefficient vector or
\* prediction sequence is produced.
FitAttempted ==
    /\ pc \notin {"idle", "bin", "plot", "design", "offset", "lgfit"}
    /\ Xdsgn_offset # None
C9_SingularRejected ==
    (FitAttempted /\ ValidWindow(n_t_filt)) =>
        \A A \in {Gram(Xdsgn_offset)} :
            Singular(A) =>
                /\ pc = "error"
                /\ err = "LinAlgError"
                /\ wsta_offset.kind = "unset"
                /\ spikes_pred_lgGLM_offset = NoSeq

\* the lengths of the stimulus, the counts and the bin edges disagree
LengthMismatch ==
    /\ pc \notin {"idle", "bin"}
    /\ Len(spikes_binned) # Len(stim) \/ Len(t_bins) # Len(stim) + 1

C10_DerivedEdges == ~LengthMismatch
====
